---- MODULE Spec2Model ----
(***************************************************************************)
(* modbus-webserial: the Modbus RTU client over Web Serial.                *)
(*                                                                         *)
(* The module models, from the TypeScript sources,                         *)
(*   - crc16 and the frame builders / parsers (core/crc16, core/frames),   *)
(*   - WebSerialTransport.transact together with the writer and the        *)
(*     reader it awaits (transport/webserial),                             *)
(*   - the ModbusRTU client operations (client.ts).                        *)
(* Bytes are the integers 0..255, frames and chunks are sequences of bytes.*)
(***************************************************************************)
EXTENDS Integers, Sequences, FiniteSets, TLC

(***************************************************************************)
(* Bounds of the model.                                                    *)
(***************************************************************************)
\* calls started in one behaviour
MaxCalls == 2
\* client operations invoked in one behaviour
MaxOps == 1
\* largest quantity a bit read is invoked with
MaxQty == 9

Callers == {"a", "b"}

(***************************************************************************)
(* Integer helpers for the JavaScript bit operators.                       *)
(***************************************************************************)
\* bit k of a ^ b, k a power of two
XorBit(a, b, k) == (((a \div k) + (b \div k)) % 2) * k

\* a ^ b for a, b in 0..0xFFFF
Xor(a, b) ==
  XorBit(a, b, 1) + XorBit(a, b, 2) + XorBit(a, b, 4) + XorBit(a, b, 8)
    + XorBit(a, b, 16) + XorBit(a, b, 32) + XorBit(a, b, 64) + XorBit(a, b, 128)
    + XorBit(a, b, 256) + XorBit(a, b, 512) + XorBit(a, b, 1024)
    + XorBit(a, b, 2048) + XorBit(a, b, 4096) + XorBit(a, b, 8192)
    + XorBit(a, b, 16384) + XorBit(a, b, 32768)

\* frame[i] of a Uint8Array, i counted from 0 as in the source; a read outside
\* the array is undefined, which the bit operators take as 0
At(frame, i) == IF i >= 0 /\ i < Len(frame) THEN frame[i + 1] ELSE 0

\* buf.subarray(0, end): a negative end counts from the end of the array
Subarray0(buf, end) ==
  LET e  == IF end < 0 THEN Len(buf) + end ELSE end
      ec == IF e < 0 THEN 0 ELSE IF e > Len(buf) THEN Len(buf) ELSE e
  IN  SubSeq(buf, 1, ec)

(***************************************************************************)
(* crc16: seed 0xFFFF; each byte is xored in and the value shifted right   *)
(* eight times, 0xA001 being xored in whenever the bit shifted out is 1.   *)
(* The steps are functions so that each intermediate value is computed     *)
(* once.                                                                   *)
(***************************************************************************)
\* crc = (crc >> 1) ^ ((crc & 1) ? 0xA001 : 0)
CrcShiftOnce[crc \in Nat] ==
  IF crc % 2 = 1 THEN Xor(crc \div 2, 40961) ELSE crc \div 2

\* for (let i = 0; i < 8; i++) ...
CrcShift[crc \in Nat, n \in Nat] ==
  IF n = 0 THEN crc ELSE CrcShift[CrcShiftOnce[crc], n - 1]

\* crc ^= b, then the eight shifts
CrcByte[crc \in Nat, b \in Nat] == CrcShift[Xor(crc, b), 8]

\* for (let b of buf) ..., over the bytes lo..hi of buf in order, from the
\* value crc (the range is halved only to keep the evaluation shallow)
CrcRange[crc \in Nat, buf \in Seq(Nat), lo \in Nat, hi \in Nat] ==
  IF lo > hi THEN crc
  ELSE IF lo = hi THEN CrcByte[crc, buf[lo]]
  ELSE CrcRange[CrcRange[crc, buf, lo, (lo + hi) \div 2], buf,
                ((lo + hi) \div 2) + 1, hi]

\* the value complemented on return
crc16Complemented(buf) == 65535 - CrcRange[65535, buf, 1, Len(buf)]

crc16(buf) == CrcRange[65535, buf, 1, Len(buf)]

\* the trailer as the parsers read it: frame[len-2] | (frame[len-1] << 8)
crcGot(frame) == At(frame, Len(frame) - 2) + 256 * At(frame, Len(frame) - 1)

\* the comparison basicChecks makes before anything else
CrcMatches(frame) == crc16(Subarray0(frame, Len(frame) - 2)) = crcGot(frame)

\* body followed by its CRC, low byte first (the tests' buildResponse helper)
buildResponse(body) == body \o <<crc16(body) % 256, crc16(body) \div 256>>

(***************************************************************************)
(* Function codes (core/types).                                            *)
(***************************************************************************)
FC_READ_COILS                       == 1
FC_READ_DISCRETE_INPUTS             == 2
FC_READ_HOLDING_REGISTERS           == 3
FC_READ_INPUT_REGISTERS             == 4
FC_WRITE_SINGLE_COIL                == 5
FC_WRITE_SINGLE_HOLDING_REGISTER    == 6
FC_WRITE_MULTIPLE_COILS             == 15
FC_WRITE_MULTIPLE_HOLDING_REGISTERS == 16
FC_READ_FILE_RECORD                 == 20
FC_WRITE_FILE_RECORD                == 21
FC_MASK_WRITE_REGISTER              == 22
FC_READ_WRITE_MULTIPLE_REGISTERS    == 23
FC_READ_FIFO_QUEUE                  == 24

(***************************************************************************)
(* Frame builders (core/frames). A builder returns a frame or throws.      *)
(***************************************************************************)
Built(frame) == [frame |-> frame, ok |-> TRUE, err |-> ""]
Thrown(msg)  == [frame |-> <<>>, ok |-> FALSE, err |-> msg]

\* a number stored into a Uint8Array element
U8(x) == x % 256
\* frame[k] = x >> 8 and frame[k] = x & 0xff
Hi(x) == U8(x \div 256)
Lo(x) == x % 256

\* the trailer written high byte first
AppendCrcHighFirst(body) == body \o <<Hi(crc16(body)), Lo(crc16(body))>>

\* frame[n-2] = crc & 0xff; frame[n-1] = crc >> 8, crc over the bytes before
AppendCrc(body) == body \o <<Lo(crc16(body)), Hi(crc16(body))>>

\* the words of values, each masked with 0xffff, high byte first
WordBytes(values) ==
  [k \in 1..(2 * Len(values)) |->
     IF k % 2 = 1 THEN (values[(k + 1) \div 2] % 65536) \div 256
     ELSE values[k \div 2] % 256]

\* data byte k (from 0) of buildWriteMultipleCoils: coil i sets bit i & 7 of
\* byte i >> 3
CoilBitHighFirst(values, k, j) ==
  IF 8 * k + j < Len(values) /\ values[8 * k + j + 1] THEN 2 ^ (7 - j) ELSE 0
CoilBit(values, k, j) ==
  IF 8 * k + j < Len(values) /\ values[8 * k + j + 1] THEN 2 ^ j ELSE 0
CoilByte(values, k) ==
  CoilBit(values, k, 0) + CoilBit(values, k, 1) + CoilBit(values, k, 2)
    + CoilBit(values, k, 3) + CoilBit(values, k, 4) + CoilBit(values, k, 5)
    + CoilBit(values, k, 6) + CoilBit(values, k, 7)
\* Math.ceil(qty / 8)
CeilDiv8(qty) == (qty + 7) \div 8
CoilBytes(values) == [k \in 1..CeilDiv8(Len(values)) |-> CoilByte(values, k - 1)]

\* the address written low byte first
Fixed8AddrLowFirst(id, fc, addr, x) ==
  AppendCrc(<<U8(id), fc, Lo(addr), Hi(addr), Hi(x), Lo(x)>>)

\* the 6-byte body + CRC shared by the fixed-size requests
Fixed8(id, fc, addr, x) ==
  AppendCrc(<<U8(id), fc, Hi(addr), Lo(addr), Hi(x), Lo(x)>>)

buildReadHolding(id, addr, len) ==
  Built(Fixed8(id, FC_READ_HOLDING_REGISTERS, addr, len))

buildWriteSingle(id, addr, value) ==
  Built(Fixed8(id, FC_WRITE_SINGLE_HOLDING_REGISTER, addr, value))

buildWriteMultiple(id, addr, values) ==
  IF Len(values) < 1 \/ Len(values) > 123
  THEN Thrown("Invalid number of registers")
  ELSE Built(AppendCrc(<<U8(id), FC_WRITE_MULTIPLE_HOLDING_REGISTERS,
                         Hi(addr), Lo(addr), Hi(Len(values)), Lo(Len(values)),
                         U8(2 * Len(values))>> \o WordBytes(values)))

buildReadCoils(id, addr, qty) ==
  IF qty < 1 \/ qty > 2000
  THEN Thrown("Invalid coil quantity")
  ELSE Built(Fixed8(id, FC_READ_COILS, addr, qty))

\* ON written into the low byte of the value
buildWriteSingleCoilLow(id, addr, value) ==
  Built(AppendCrc(<<U8(id), FC_WRITE_SINGLE_COIL, Hi(addr), Lo(addr),
                    0, IF value THEN 255 ELSE 0>>))

buildWriteSingleCoil(id, addr, value) ==
  Built(AppendCrc(<<U8(id), FC_WRITE_SINGLE_COIL, Hi(addr), Lo(addr),
                    IF value THEN 255 ELSE 0, 0>>))

buildWriteMultipleCoils(id, addr, values) ==
  IF Len(values) < 1 \/ Len(values) > 1968
  THEN Thrown("Invalid coil quantity")
  ELSE Built(AppendCrc(<<U8(id), FC_WRITE_MULTIPLE_COILS, Hi(addr), Lo(addr),
                         Hi(Len(values)), Lo(Len(values)),
                         U8(CeilDiv8(Len(values)))>> \o CoilBytes(values)))

buildReadInputRegisters(id, addr, qty) ==
  IF qty < 1 \/ qty > 125
  THEN Thrown("Invalid register quantity")
  ELSE Built(Fixed8(id, FC_READ_INPUT_REGISTERS, addr, qty))

buildReadDiscreteInputs(id, addr, qty) ==
  IF qty < 1 \/ qty > 2000
  THEN Thrown("Invalid discrete-input quantity")
  ELSE Built(Fixed8(id, FC_READ_DISCRETE_INPUTS, addr, qty))

buildMaskWriteRegister(id, addr, andMask, orMask) ==
  Built(AppendCrc(<<U8(id), FC_MASK_WRITE_REGISTER, Hi(addr), Lo(addr),
                    Hi(andMask), Lo(andMask), Hi(orMask), Lo(orMask)>>))

buildReadWriteMultiple(id, readAddr, readQty, writeAddr, values) ==
  IF readQty < 1 \/ readQty > 125 THEN Thrown("Invalid read quantity")
  ELSE IF Len(values) < 1 \/ Len(values) > 121
  THEN Thrown("Invalid write quantity")
  ELSE Built(AppendCrc(<<U8(id), FC_READ_WRITE_MULTIPLE_REGISTERS,
                         Hi(readAddr), Lo(readAddr), Hi(readQty), Lo(readQty),
                         Hi(writeAddr), Lo(writeAddr),
                         Hi(Len(values)), Lo(Len(values)),
                         U8(2 * Len(values))>> \o WordBytes(values)))

buildReadFileRecord(id, file, record, length) ==
  IF length < 1 \/ length > 120 THEN Thrown("Invalid record length")
  ELSE Built(AppendCrc(<<U8(id), FC_READ_FILE_RECORD, 7, 6, Hi(file), Lo(file),
                         Hi(record), Lo(record), Hi(length), Lo(length)>>))

buildWriteFileRecord(id, file, record, values) ==
  IF Len(values) < 1 \/ Len(values) > 120 THEN Thrown("Invalid record length")
  ELSE Built(AppendCrc(<<U8(id), FC_WRITE_FILE_RECORD, U8(7 + 2 * Len(values)),
                         6, Hi(file), Lo(file), Hi(record), Lo(record),
                         Hi(Len(values)), Lo(Len(values))>> \o WordBytes(values)))

buildReadFifoQueue(id, addr) ==
  Built(AppendCrc(<<U8(id), FC_READ_FIFO_QUEUE, Hi(addr), Lo(addr)>>))

(***************************************************************************)
(* Frame parsers (core/frames). A parser returns its payload or throws;    *)
(* kind is "ok" or the class of the error thrown ("Error" is the plain     *)
(* Error('Unexpected function code')).                                     *)
(***************************************************************************)
Parsed(data)       == [data |-> data, kind |-> "ok", code |-> 0]
ParseThrown(k, cd) == [data |-> <<>>, kind |-> k, code |-> cd]

\* the function code compared before the exception bit is looked at
basicChecksFcFirst(frame, expectedFC) ==
  IF ~CrcMatches(frame) THEN ParseThrown("CrcError", 0)
  ELSE IF At(frame, 1) % 128 # expectedFC THEN ParseThrown("Error", 0)
  ELSE IF At(frame, 1) >= 128 THEN ParseThrown("ExceptionError", At(frame, 2))
  ELSE Parsed(<<>>)

\* basicChecks: CRC first, then the exception bit, then the function code.
\* new ExceptionError(frame[2]) calls code.toString(16), which throws a
\* TypeError when the frame has no byte 2
basicChecks(frame, expectedFC) ==
  IF ~CrcMatches(frame) THEN ParseThrown("CrcError", 0)
  ELSE IF At(frame, 1) >= 128
       THEN IF Len(frame) > 2 THEN ParseThrown("ExceptionError", At(frame, 2))
            ELSE ParseThrown("TypeError", 0)
  ELSE IF At(frame, 1) % 128 # expectedFC THEN ParseThrown("Error", 0)
  ELSE Parsed(<<>>)

\* for (i = 0; i < n; i += 2) words.push((resp[from + i] << 8) | resp[from + 1 + i])
WordsAt(resp, from, n) ==
  [k \in 1..((IF n > 0 THEN n + 1 ELSE 0) \div 2) |->
     256 * At(resp, from + 2 * (k - 1)) + At(resp, from + 2 * (k - 1) + 1)]

\* the parsers that read byteCount = resp[2] and then the words from resp[3]
parseWords(resp, expectedFC) ==
  IF basicChecks(resp, expectedFC).kind # "ok" THEN basicChecks(resp, expectedFC)
  ELSE Parsed(WordsAt(resp, 3, At(resp, 2)))

parseReadHolding(resp)        == parseWords(resp, FC_READ_HOLDING_REGISTERS)
parseReadInputRegisters(resp) == parseWords(resp, FC_READ_INPUT_REGISTERS)
parseReadWriteMultiple(resp)  == parseWords(resp, FC_READ_WRITE_MULTIPLE_REGISTERS)

\* the echo parsers: { address, value }
parseEcho(resp, expectedFC) ==
  IF basicChecks(resp, expectedFC).kind # "ok" THEN basicChecks(resp, expectedFC)
  ELSE Parsed([address |-> 256 * At(resp, 2) + At(resp, 3),
               value   |-> 256 * At(resp, 4) + At(resp, 5)])

parseWriteSingle(resp) == parseEcho(resp, FC_WRITE_SINGLE_HOLDING_REGISTER)

\* state: val === 0xff00
parseWriteSingleCoil(resp) ==
  IF basicChecks(resp, FC_WRITE_SINGLE_COIL).kind # "ok"
  THEN basicChecks(resp, FC_WRITE_SINGLE_COIL)
  ELSE Parsed([address |-> 256 * At(resp, 2) + At(resp, 3),
               state   |-> 256 * At(resp, 4) + At(resp, 5) = 65280])

parseMaskWriteRegister(resp) ==
  IF basicChecks(resp, FC_MASK_WRITE_REGISTER).kind # "ok"
  THEN basicChecks(resp, FC_MASK_WRITE_REGISTER)
  ELSE Parsed([address |-> 256 * At(resp, 2) + At(resp, 3),
               andMask |-> 256 * At(resp, 4) + At(resp, 5),
               orMask  |-> 256 * At(resp, 6) + At(resp, 7)])

\* dataLen = resp[3] - 1, the words from resp[5]
parseReadFileRecord(resp) ==
  IF basicChecks(resp, FC_READ_FILE_RECORD).kind # "ok"
  THEN basicChecks(resp, FC_READ_FILE_RECORD)
  ELSE Parsed(WordsAt(resp, 5, At(resp, 3) - 1))

\* count = (resp[4] << 8) | resp[5], then count words from resp[6]
parseReadFifoQueue(resp) ==
  IF basicChecks(resp, FC_READ_FIFO_QUEUE).kind # "ok"
  THEN basicChecks(resp, FC_READ_FIFO_QUEUE)
  ELSE Parsed(WordsAt(resp, 6, 2 * (256 * At(resp, 4) + At(resp, 5))))

\* _parseBits: byteCount = _frame[2], then eight booleans per byte, LSB first
parseBits(frame, expectedFC) ==
  IF basicChecks(frame, expectedFC).kind # "ok" THEN basicChecks(frame, expectedFC)
  ELSE Parsed([k \in 1..(8 * At(frame, 2)) |->
                 (At(frame, 3 + ((k - 1) \div 8)) \div (2 ^ ((k - 1) % 8))) % 2 = 1])

parseReadCoils(frame)          == parseBits(frame, FC_READ_COILS)
parseReadDiscreteInputs(frame) == parseBits(frame, FC_READ_DISCRETE_INPUTS)

(***************************************************************************)
(* Wire data: the frames the transport tests feed to the reader.           *)
(***************************************************************************)
okFrame  == buildResponse(<<1, 3, 2, 18, 52>>)
good     == buildResponse(<<1, 3, 2, 170, 85>>)
bad      == <<1, 3, 2, 18, 52, 0, 0>>
f1       == buildResponse(<<1, 6, 0, 1, 190, 239>>)
f2       == buildResponse(<<1, 6, 0, 2, 18, 52>>)
excFrame == buildResponse(<<1, 131, 2>>)

WireFrames == {okFrame, good, bad, f1, f2, excFrame}

\* what the byte source delivers, chunk by chunk: nothing, one chunk (also a
\* chunk of 0 bytes), two frames in one chunk, two frames in two chunks, and a
\* frame split in two at every position
Streams ==
  {<<>>}
    \cup {<<ch>> : ch \in WireFrames \cup {<<>>}}
    \cup {<<pr[1] \o pr[2]>> : pr \in WireFrames \X WireFrames}
    \cup {<<pr[1], pr[2]>> : pr \in WireFrames \X WireFrames}
    \cup UNION {{<<SubSeq(F, 1, k), SubSeq(F, k + 1, Len(F))>> : k \in 1..(Len(F) - 1)}
                : F \in WireFrames}

\* the request stubs of the transport tests: unit id 1, FC 03 and FC 06
Requests == {<<1, 3>>, <<1, 6>>}

(***************************************************************************)
(* State.                                                                  *)
(***************************************************************************)
VARIABLES
  pc,        \* per caller: where its transact call stands
  req,       \* per caller: the frame handed to transact
  op,        \* per caller: the client operation that made the call
  args,      \* per caller: the arguments of that operation
  id,        \* ModbusRTU.id
  calls,     \* calls started so far
  serial,    \* the caller awaits each call before it makes the next
  writeQ,    \* writer: callers whose write has not completed, oldest first
  sinkMode,  \* writer: what the sink does with a write
  sent,      \* writer: the frames written, in order
  stream,    \* reader: the chunks the source will deliver
  pos,       \* reader: how many of them have arrived
  ending,    \* reader: what follows the last chunk
  closed,    \* reader: the stream has signalled its end
  inbox,     \* reader: chunks arrived and not yet read
  readQ,     \* reader: pending read() requests, oldest first
  log,       \* completed transact calls, in order of completion
  results,   \* completed client operations, in order of completion
  probe      \* the last direct call of a builder, a parser or crc16, with
             \* its arguments and what it returned

vars == <<pc, req, op, args, id, calls, serial, writeQ, sinkMode, sent,
          stream, pos, ending, closed, inbox, readQ, log, results, probe>>

clientVars == <<op, args, id, results>>
\* what no step of the transport or of the client changes
sourceVars == <<stream, ending, serial, sinkMode, probe>>

\* no builder, parser or crc16 called directly
NoProbe == [fn |-> "none"]

NoArgs == [x |-> 0, qty |-> 0, addr |-> 0, y |-> 0, vals |-> <<>>]

\* the { value } of a resolved reader.read()
HasValue(chunk) == [has |-> TRUE, bytes |-> chunk]
NoValue         == [has |-> FALSE, bytes |-> <<>>]

Init ==
  /\ pc = [c \in Callers |-> "idle"]
  /\ req = [c \in Callers |-> <<>>]
  /\ op = [c \in Callers |-> "none"]
  /\ args = [c \in Callers |-> NoArgs]
  /\ id = 1
  /\ calls = 0
  /\ serial \in BOOLEAN
  /\ writeQ = <<>>
  /\ sinkMode \in {"ok", "stuck", "error"}
  /\ sent = <<>>
  /\ stream \in Streams
  /\ pos = 0
  /\ ending \in {"eos", "silent"}
  /\ closed = FALSE
  /\ inbox = <<>>
  /\ readQ = <<>>
  /\ log = <<>>
  /\ results = <<>>
  /\ probe = NoProbe

(***************************************************************************)
(* ModbusRTU (client.ts): each operation builds its request with the       *)
(* client's id, awaits transact and shapes the reply.                      *)
(***************************************************************************)
Ops == {"readCoils", "readDiscreteInputs", "readHoldingRegisters",
        "readInputRegisters", "writeCoil", "writeCoils", "writeRegister",
        "writeRegisters", "maskWriteRegister", "readWriteRegisters",
        "readFileRecord", "writeFileRecord", "readFifoQueue"}

\* the function code each operation's builder writes into byte 1
OpFC(o) ==
  CASE o = "readCoils"            -> FC_READ_COILS
    [] o = "readDiscreteInputs"   -> FC_READ_DISCRETE_INPUTS
    [] o = "readHoldingRegisters" -> FC_READ_HOLDING_REGISTERS
    [] o = "readInputRegisters"   -> FC_READ_INPUT_REGISTERS
    [] o = "writeCoil"            -> FC_WRITE_SINGLE_COIL
    [] o = "writeCoils"           -> FC_WRITE_MULTIPLE_COILS
    [] o = "writeRegister"        -> FC_WRITE_SINGLE_HOLDING_REGISTER
    [] o = "writeRegisters"       -> FC_WRITE_MULTIPLE_HOLDING_REGISTERS
    [] o = "maskWriteRegister"    -> FC_MASK_WRITE_REGISTER
    [] o = "readWriteRegisters"   -> FC_READ_WRITE_MULTIPLE_REGISTERS
    [] o = "readFileRecord"       -> FC_READ_FILE_RECORD
    [] o = "writeFileRecord"      -> FC_WRITE_FILE_RECORD
    [] o = "readFifoQueue"        -> FC_READ_FIFO_QUEUE

\* the builder call of operation o with arguments a. The argument record holds
\*   addr: addr / readAddr / file      qty:  qty / readQty / length
\*   x:    value / andMask / writeAddr / record / state (1 = true)
\*   y:    orMask                      vals: states / values
Request(o, unit, a) ==
  CASE o = "readCoils"            -> buildReadCoils(unit, a.addr, a.qty)
    [] o = "readDiscreteInputs"   -> buildReadDiscreteInputs(unit, a.addr, a.qty)
    [] o = "readHoldingRegisters" -> buildReadHolding(unit, a.addr, a.qty)
    [] o = "readInputRegisters"   -> buildReadInputRegisters(unit, a.addr, a.qty)
    [] o = "writeCoil"            -> buildWriteSingleCoil(unit, a.addr, a.x = 1)
    [] o = "writeCoils"           -> buildWriteMultipleCoils(unit, a.addr, a.vals)
    [] o = "writeRegister"        -> buildWriteSingle(unit, a.addr, a.x)
    [] o = "writeRegisters"       -> buildWriteMultiple(unit, a.addr, a.vals)
    [] o = "maskWriteRegister"    -> buildMaskWriteRegister(unit, a.addr, a.x, a.y)
    [] o = "readWriteRegisters"   ->
         buildReadWriteMultiple(unit, a.addr, a.qty, a.x, a.vals)
    [] o = "readFileRecord"       -> buildReadFileRecord(unit, a.addr, a.x, a.qty)
    [] o = "writeFileRecord"      -> buildWriteFileRecord(unit, a.addr, a.x, a.vals)
    [] o = "readFifoQueue"        -> buildReadFifoQueue(unit, a.addr)

\* full.slice(0, qty) for qty >= 0
Slice0(full, qty) == SubSeq(full, 1, IF qty < Len(full) THEN qty ELSE Len(full))

\* what operation o makes of the frame raw that transact returned: the parser's
\* payload, or the error the parser throws. writeCoils, writeRegisters and
\* writeFileRecord call no parser and answer from their own arguments.
Shape(o, a, raw) ==
  CASE o = "readCoils"            -> parseReadCoils(raw)
    [] o = "readDiscreteInputs"   ->
         IF parseReadDiscreteInputs(raw).kind # "ok"
         THEN parseReadDiscreteInputs(raw)
         ELSE Parsed(Slice0(parseReadDiscreteInputs(raw).data, a.qty))
    [] o = "readHoldingRegisters" -> parseReadHolding(raw)
    [] o = "readInputRegisters"   -> parseReadInputRegisters(raw)
    [] o = "writeCoil"            -> parseWriteSingleCoil(raw)
    [] o = "writeCoils"           ->
         Parsed([address |-> a.addr, length |-> Len(a.vals)])
    [] o = "writeRegister"        -> parseWriteSingle(raw)
    [] o = "writeRegisters"       ->
         Parsed([address |-> a.addr, length |-> Len(a.vals)])
    [] o = "maskWriteRegister"    -> parseMaskWriteRegister(raw)
    [] o = "readWriteRegisters"   -> parseReadWriteMultiple(raw)
    [] o = "readFileRecord"       -> parseReadFileRecord(raw)
    [] o = "writeFileRecord"      ->
         Parsed([file |-> a.addr, record |-> a.x, length |-> Len(a.vals)])
    [] o = "readFifoQueue"        -> parseReadFifoQueue(raw)

\* the record of a finished operation: tkind is how transact ended ("frame",
\* "Timeout", "Io", or "none" when the builder threw and transact was not
\* called), kind how the operation ended
Outcome(c, o, a, tkind, raw) ==
  IF tkind = "frame"
  THEN [r \in {Shape(o, a, raw)} |->
          [caller |-> c, op |-> o, args |-> a, tkind |-> tkind, raw |-> raw,
           kind |-> r.kind, data |-> r.data, code |-> r.code]][Shape(o, a, raw)]
  ELSE [caller |-> c, op |-> o, args |-> a, tkind |-> tkind, raw |-> raw,
        kind |-> IF tkind = "none" THEN "Error" ELSE tkind,
        data |-> <<>>, code |-> 0]

(***************************************************************************)
(* WebSerialTransport.transact                                             *)
(*                                                                         *)
(*   await this.writer.write(frame);                                       *)
(*   const timeout = new Promise((_, reject) =>                            *)
(*     setTimeout(() => reject(new TimeoutError()), this.timeout));        *)
(*   const { value } = await Promise.race([this.reader.read(), timeout]);  *)
(*   if (!value) throw new TimeoutError();                                 *)
(*   return value;                                                         *)
(***************************************************************************)

\* !value: undefined is falsy, a Uint8Array of any length is an object
Falsy(r) == ~r.has

\* the call of caller c settles: kind is "frame" when transact returns val,
\* else the error it throws; rd tells what ended the race ("chunk": the read
\* gave the chunk got, "done": the read gave no value, "timer"). The client
\* operation that awaits the call continues in the same step.
Settle(c, kind, val, rd, got) ==
  /\ pc' = [pc EXCEPT ![c] = "idle"]
  /\ log' = Append(log, [caller |-> c, req |-> req[c], kind |-> kind,
                         val |-> val, rd |-> rd, got |-> got])
  /\ results' = IF op[c] = "transact" THEN results
                ELSE Append(results, Outcome(c, op[c], args[c], kind, val))

\* the last two statements of transact, r being the { value } read
AfterRead(c, r) ==
  IF Falsy(r)
  THEN Settle(c, "Timeout", <<>>, IF r.has THEN "chunk" ELSE "done", r.bytes)
  ELSE Settle(c, "frame", r.bytes, "chunk", r.bytes)

\* transact up to its first await: the frame is handed to the writer
TransactBegin(c, frame) ==
  /\ pc[c] = "idle"
  /\ calls < MaxCalls
  /\ serial => \A d \in Callers : pc[d] = "idle"
  /\ pc' = [pc EXCEPT ![c] = "writing"]
  /\ req' = [req EXCEPT ![c] = frame]
  /\ calls' = calls + 1
  /\ writeQ' = Append(writeQ, c)
  /\ UNCHANGED <<sent, pos, closed, inbox, readQ, log, results, sourceVars>>

\* a caller of the transport calls transact(frame)
Transact(c, frame) ==
  /\ TransactBegin(c, frame)
  /\ op' = [op EXCEPT ![c] = "transact"]
  /\ args' = [args EXCEPT ![c] = NoArgs]
  /\ UNCHANGED id

\* transact that writes the request again when the read gave no value
WriteDoneRetry(c) ==
  /\ pc[c] = "writing"
  /\ writeQ # <<>> /\ Head(writeQ) = c
  /\ sinkMode = "ok"
  /\ sent' = Append(sent, req[c])
  /\ IF inbox # <<>>
     THEN /\ writeQ' = Tail(writeQ)
          /\ inbox' = Tail(inbox)
          /\ readQ' = readQ
          /\ AfterRead(c, HasValue(Head(inbox)))
     ELSE IF closed /\ readQ = <<>>
     THEN /\ writeQ' = Append(Tail(writeQ), c)
          /\ UNCHANGED <<inbox, readQ, pc, log, results>>
     ELSE /\ writeQ' = Tail(writeQ)
          /\ readQ' = Append(readQ, [caller |-> c, live |-> TRUE])
          /\ pc' = [pc EXCEPT ![c] = "reading"]
          /\ UNCHANGED <<inbox, log, results>>
  /\ UNCHANGED <<req, calls, pos, closed, sourceVars, op, args, id>>

\* the write completes; the timer is started and the read is issued. A chunk
\* already queued in the stream, or the end of the stream, resolves the read
\* before any timer can run.
WriteDone(c) ==
  /\ pc[c] = "writing"
  /\ writeQ # <<>> /\ Head(writeQ) = c
  /\ sinkMode = "ok"
  /\ writeQ' = Tail(writeQ)
  /\ sent' = Append(sent, req[c])
  /\ IF inbox # <<>>
     THEN /\ inbox' = Tail(inbox)
          /\ readQ' = readQ
          /\ AfterRead(c, HasValue(Head(inbox)))
     ELSE IF closed /\ readQ = <<>>
     THEN /\ UNCHANGED <<inbox, readQ>>
          /\ AfterRead(c, NoValue)
     ELSE /\ readQ' = Append(readQ, [caller |-> c, live |-> TRUE])
          /\ pc' = [pc EXCEPT ![c] = "reading"]
          /\ UNCHANGED <<inbox, log, results>>
  /\ UNCHANGED <<req, calls, pos, closed, sourceVars, op, args, id>>

\* the write is rejected: the await throws and transact ends there
WriteFail(c) ==
  /\ pc[c] = "writing"
  /\ writeQ # <<>> /\ Head(writeQ) = c
  /\ sinkMode = "error"
  /\ writeQ' = Tail(writeQ)
  /\ Settle(c, "Io", <<>>, "none", <<>>)
  /\ UNCHANGED <<req, calls, sent, pos, closed, inbox, readQ, sourceVars,
                 op, args, id>>

\* the timer of the call fires while its read is pending: the race rejects.
\* The read stays queued in the reader; nobody awaits it any more.
TimerFires(c) ==
  /\ pc[c] = "reading"
  /\ readQ' = [i \in 1..Len(readQ) |->
                 IF readQ[i].caller = c /\ readQ[i].live
                 THEN [readQ[i] EXCEPT !.live = FALSE] ELSE readQ[i]]
  /\ Settle(c, "Timeout", <<>>, "timer", <<>>)
  /\ UNCHANGED <<req, calls, writeQ, sent, pos, closed, inbox, sourceVars,
                 op, args, id>>

\* the source delivers its next chunk: it resolves the oldest pending read,
\* or waits in the stream's queue when no read is pending
Deliver ==
  /\ pos < Len(stream)
  /\ ~closed
  /\ pos' = pos + 1
  /\ IF readQ = <<>>
     THEN /\ inbox' = Append(inbox, stream[pos + 1])
          /\ UNCHANGED <<readQ, pc, log, results>>
     ELSE /\ readQ' = Tail(readQ)
          /\ inbox' = inbox
          /\ IF Head(readQ).live
             THEN AfterRead(Head(readQ).caller, HasValue(stream[pos + 1]))
             ELSE UNCHANGED <<pc, log, results>>
  /\ UNCHANGED <<req, calls, writeQ, sent, closed, sourceVars, op, args, id>>

\* the source signals end-of-stream after its last chunk
Close ==
  /\ pos = Len(stream)
  /\ ending = "eos"
  /\ ~closed
  /\ closed' = TRUE
  /\ UNCHANGED <<pc, req, calls, writeQ, sent, pos, inbox, readQ, log,
                 results, sourceVars, op, args, id>>

\* a read pending at the end of the stream resolves without a value
ReadEnd ==
  /\ closed
  /\ readQ # <<>>
  /\ readQ' = Tail(readQ)
  /\ IF Head(readQ).live
     THEN AfterRead(Head(readQ).caller, NoValue)
     ELSE UNCHANGED <<pc, log, results>>
  /\ UNCHANGED <<req, calls, writeQ, sent, pos, closed, inbox, sourceVars,
                 op, args, id>>

Next ==
  \/ \E c \in Callers, frame \in Requests : Transact(c, frame)
  \/ \E c \in Callers : WriteDone(c)
  \/ \E c \in Callers : WriteFail(c)
  \/ \E c \in Callers : TimerFires(c)
  \/ Deliver
  \/ Close
  \/ ReadEnd

Spec == Init /\ [][Next]_vars

(***************************************************************************)
(* The client over the transport.                                          *)
(***************************************************************************)
Args(addr, qty, x, y, vals) ==
  [x |-> x, qty |-> qty, addr |-> addr, y |-> y, vals |-> vals]

\* the arguments the operations are invoked with
ClientArgs(o) ==
  CASE o \in {"readCoils", "readDiscreteInputs"} ->
         {Args(0, q, 0, 0, <<>>) : q \in 0..MaxQty}
    [] o \in {"readHoldingRegisters", "readInputRegisters"} ->
         {Args(0, 1, 0, 0, <<>>)}
    [] o = "writeCoil"          -> {Args(2, 0, 1, 0, <<>>)}
    [] o = "writeCoils"         -> {Args(16, 0, 0, 0, <<TRUE, FALSE, TRUE>>)}
    [] o = "writeRegister"      -> {Args(1, 0, 48879, 0, <<>>)}
    [] o = "writeRegisters"     -> {Args(16, 0, 0, 0, <<43690, 48059>>)}
    [] o = "maskWriteRegister"  -> {Args(4, 0, 242, 37, <<>>)}
    [] o = "readWriteRegisters" -> {Args(0, 1, 16, 0, <<7>>)}
    [] o = "readFileRecord"     -> {Args(4, 2, 1, 0, <<>>)}
    [] o = "writeFileRecord"    -> {Args(4, 0, 1, 0, <<258, 772>>)}
    [] o = "readFifoQueue"      -> {Args(0, 0, 0, 0, <<>>)}

UnitIds == {1, 17}

\* replies of a device with unit id 1 to the requests above: for the bit reads
\* one and two data bytes, for the rest the reply the request calls for
BitReplies ==
  {buildResponse(<<1, fc, 1, 5>>) : fc \in {FC_READ_COILS, FC_READ_DISCRETE_INPUTS}}
    \cup {buildResponse(<<1, fc, 2, 5, 1>>)
            : fc \in {FC_READ_COILS, FC_READ_DISCRETE_INPUTS}}

GoodReplies ==
  BitReplies
    \cup {okFrame, f1,
          buildResponse(<<1, FC_READ_INPUT_REGISTERS, 2, 170, 170>>),
          buildWriteSingleCoil(1, 2, TRUE).frame,
          buildResponse(<<1, FC_WRITE_MULTIPLE_COILS, 0, 16, 0, 3>>),
          buildResponse(<<1, FC_WRITE_MULTIPLE_HOLDING_REGISTERS, 0, 16, 0, 2>>),
          buildMaskWriteRegister(1, 4, 242, 37).frame,
          buildResponse(<<1, FC_READ_WRITE_MULTIPLE_REGISTERS, 2, 0, 1>>),
          buildResponse(<<1, FC_READ_FILE_RECORD, 6, 5, 6, 1, 2, 3, 4>>),
          buildWriteFileRecord(1, 4, 1, <<258, 772>>).frame,
          buildResponse(<<1, FC_READ_FIFO_QUEUE, 0, 6, 0, 2, 1, 2, 3, 4>>)}

\* an exception response to FC 0F, and the tests' exception and bad-CRC frames
BadReplies == {excFrame, bad, buildResponse(<<1, 143, 2>>)}

ClientStreams ==
  {<<>>, <<okFrame, f1>>} \cup {<<ch>> : ch \in GoodReplies \cup BadReplies}

ClientInit ==
  /\ pc = [c \in Callers |-> "idle"]
  /\ req = [c \in Callers |-> <<>>]
  /\ op = [c \in Callers |-> "none"]
  /\ args = [c \in Callers |-> NoArgs]
  /\ id = 1
  /\ calls = 0
  /\ serial = TRUE
  /\ writeQ = <<>>
  /\ sinkMode \in {"ok", "error"}
  /\ sent = <<>>
  /\ stream \in ClientStreams
  /\ pos = 0
  /\ ending \in {"eos", "silent"}
  /\ closed = FALSE
  /\ inbox = <<>>
  /\ readQ = <<>>
  /\ log = <<>>
  /\ results = <<>>
  /\ probe = NoProbe

\* getID()
getID == id

\* setID(id)
SetID(unit) ==
  /\ id' = unit
  /\ UNCHANGED <<pc, req, op, args, calls, writeQ, sent, pos, closed, inbox,
                 readQ, log, results, sourceVars>>

\* the operation builds its request for unit id 1 whatever this.id is
InvokeDefaultId(c, o, a) ==
  /\ pc[c] = "idle"
  /\ \E b \in {Request(o, 1, a)} :
       IF b.ok
       THEN /\ TransactBegin(c, b.frame)
            /\ op' = [op EXCEPT ![c] = o]
            /\ args' = [args EXCEPT ![c] = a]
            /\ UNCHANGED id
       ELSE /\ serial => \A d \in Callers : pc[d] = "idle"
            /\ calls' = calls + 1
            /\ results' = Append(results, Outcome(c, o, a, "none", <<>>))
            /\ UNCHANGED <<pc, req, op, args, id, writeQ, sent, pos, closed,
                           inbox, readQ, log, sourceVars>>

\* the operation hands the writer a frame of no bytes before its builder throws
InvokeWritesFirst(c, o, a) ==
  /\ pc[c] = "idle"
  /\ \E b \in {Request(o, id, a)} :
       IF b.ok
       THEN /\ TransactBegin(c, b.frame)
            /\ op' = [op EXCEPT ![c] = o]
            /\ args' = [args EXCEPT ![c] = a]
            /\ UNCHANGED id
       ELSE /\ serial => \A d \in Callers : pc[d] = "idle"
            /\ calls' = calls + 1
            /\ sent' = Append(sent, <<>>)
            /\ results' = Append(results, Outcome(c, o, a, "none", <<>>))
            /\ UNCHANGED <<pc, req, op, args, id, writeQ, pos, closed,
                           inbox, readQ, log, sourceVars>>

\* caller c invokes operation o with arguments a: the builder runs first; when
\* it throws the operation ends there, else transact is called with the frame
Invoke(c, o, a) ==
  /\ pc[c] = "idle"
  /\ \E b \in {Request(o, id, a)} :
       IF b.ok
       THEN /\ TransactBegin(c, b.frame)
            /\ op' = [op EXCEPT ![c] = o]
            /\ args' = [args EXCEPT ![c] = a]
            /\ UNCHANGED id
       ELSE /\ serial => \A d \in Callers : pc[d] = "idle"
            /\ calls' = calls + 1
            /\ results' = Append(results, Outcome(c, o, a, "none", <<>>))
            /\ UNCHANGED <<pc, req, op, args, id, writeQ, sent, pos, closed,
                           inbox, readQ, log, sourceVars>>

\* an operation of a client that is used for MaxOps operations
ClientOp(c, o, a) ==
  /\ calls < MaxOps
  /\ Invoke(c, o, a)

ClientNext ==
  \/ \E c \in Callers, o \in Ops : \E a \in ClientArgs(o) : ClientOp(c, o, a)
  \/ \E unit \in UnitIds : SetID(unit)
  \/ \E c \in Callers : WriteDone(c)
  \/ \E c \in Callers : WriteFail(c)
  \/ \E c \in Callers : TimerFires(c)
  \/ Deliver
  \/ Close
  \/ ReadEnd

ClientSpec == ClientInit /\ [][ClientNext]_vars


(***************************************************************************)
(* A client used for several operations in a row, with setID in between.   *)
(***************************************************************************)
\* one argument tuple per operation, and quantity 0 for the bit reads
SessionArgs(o) == {a \in ClientArgs(o) : a.qty <= 1}

\* the unit ids setID is called with: the default, the one of the client
\* tests, and the largest value a byte holds
SessionIds == {1, 17, 255}

\* a reply with a bad CRC and then a good FC 03 reply; an exception response
SessionStreams == {<<bad, okFrame>>, <<excFrame>>}

SessionInit ==
  /\ pc = [c \in Callers |-> "idle"]
  /\ req = [c \in Callers |-> <<>>]
  /\ op = [c \in Callers |-> "none"]
  /\ args = [c \in Callers |-> NoArgs]
  /\ id = 1
  /\ calls = 0
  /\ serial = TRUE
  /\ writeQ = <<>>
  /\ sinkMode \in {"ok", "error"}
  /\ sent = <<>>
  /\ stream \in SessionStreams
  /\ pos = 0
  /\ ending = "eos"
  /\ closed = FALSE
  /\ inbox = <<>>
  /\ readQ = <<>>
  /\ log = <<>>
  /\ results = <<>>
  /\ probe = NoProbe

\* an operation of a client that is used for MaxCalls operations
SessionOp(c, o, a) ==
  /\ calls < MaxCalls
  /\ Invoke(c, o, a)

SessionNext ==
  \/ \E o \in Ops : \E a \in SessionArgs(o) : SessionOp("a", o, a)
  \/ \E unit \in SessionIds : SetID(unit)
  \/ \E c \in Callers : WriteDone(c)
  \/ \E c \in Callers : WriteFail(c)
  \/ \E c \in Callers : TimerFires(c)
  \/ Deliver
  \/ Close
  \/ ReadEnd

SessionSpec == SessionInit /\ [][SessionNext]_vars

(***************************************************************************)
(* A client whose operations are invoked with arguments the builders       *)
(* reject, and with arguments they accept.                                 *)
(***************************************************************************)
\* arguments the builders reject: quantity 0 and 126 of a register read, no
\* coil states, no register values and 124 of them
RejectedArgs(o) ==
  CASE o = "readInputRegisters" -> {Args(0, q, 0, 0, <<>>) : q \in {0, 126}}
    [] o = "writeCoils"         -> {Args(16, 0, 0, 0, <<>>)}
    [] o = "writeRegisters"     ->
         {Args(16, 0, 0, 0, <<>>), Args(16, 0, 0, 0, [k \in 1..124 |-> 43690])}
    [] OTHER                    -> {}

\* the operations invoked: a bit read (with quantity 0 and 1) and the three
\* with rejected arguments above
RejectOps == {"readCoils", "readInputRegisters", "writeCoils", "writeRegisters"}

\* the streams of a session, and a source that delivers nothing
RejectInit ==
  /\ pc = [c \in Callers |-> "idle"]
  /\ req = [c \in Callers |-> <<>>]
  /\ op = [c \in Callers |-> "none"]
  /\ args = [c \in Callers |-> NoArgs]
  /\ id = 1
  /\ calls = 0
  /\ serial = TRUE
  /\ writeQ = <<>>
  /\ sinkMode \in {"ok", "error"}
  /\ sent = <<>>
  /\ stream \in SessionStreams \cup {<<>>}
  /\ pos = 0
  /\ ending = "eos"
  /\ closed = FALSE
  /\ inbox = <<>>
  /\ readQ = <<>>
  /\ log = <<>>
  /\ results = <<>>
  /\ probe = NoProbe

RejectNext ==
  \/ \E o \in RejectOps :
       \E a \in SessionArgs(o) \cup RejectedArgs(o) : ClientOp("a", o, a)
  \/ \E unit \in UnitIds : SetID(unit)
  \/ \E c \in Callers : WriteDone(c)
  \/ \E c \in Callers : WriteFail(c)
  \/ \E c \in Callers : TimerFires(c)
  \/ Deliver
  \/ Close
  \/ ReadEnd

RejectSpec == RejectInit /\ [][RejectNext]_vars

(***************************************************************************)
(* ExceptionError (core/errors): the message of code is its entry in       *)
(* EXCEPTION_MESSAGES, or `Modbus exception 0x${code.toString(16)}`.       *)
(***************************************************************************)
HexDigit(d) ==
  CASE d = 0 -> "0" [] d = 1 -> "1" [] d = 2 -> "2" [] d = 3 -> "3"
    [] d = 4 -> "4" [] d = 5 -> "5" [] d = 6 -> "6" [] d = 7 -> "7"
    [] d = 8 -> "8" [] d = 9 -> "9" [] d = 10 -> "a" [] d = 11 -> "b"
    [] d = 12 -> "c" [] d = 13 -> "d" [] d = 14 -> "e" [] d = 15 -> "f"

\* code.toString(16) for code in 0..255: no padding, lower case
ToString16(code) ==
  IF code < 16 THEN HexDigit(code)
  ELSE HexDigit(code \div 16) \o HexDigit(code % 16)

EXCEPTION_MESSAGES ==
  [c \in {1, 2, 3, 4, 5, 6, 8, 10, 11} |->
     CASE c = 1  -> "Illegal Function"
       [] c = 2  -> "Illegal Data Address"
       [] c = 3  -> "Illegal Data Value"
       [] c = 4  -> "Slave Device Failure"
       [] c = 5  -> "Acknowledge"
       [] c = 6  -> "Slaver Device Busy"
       [] c = 8  -> "Memory Parity Error"
       [] c = 10 -> "Gateway Path Unavailable"
       [] c = 11 -> "Gateway Target Device Failed to Respond"]

\* super(EXCEPTION_MESSAGES[code] ?? `Modbus exception 0x${code.toString(16)}`)
ExceptionMessage(code) ==
  IF code \in DOMAIN EXCEPTION_MESSAGES THEN EXCEPTION_MESSAGES[code]
  ELSE "Modbus exception 0x" \o ToString16(code)

(***************************************************************************)
(* The builders, the parsers and crc16 called directly, as the unit tests  *)
(* call them: one call per behaviour, recorded in probe.                   *)
(***************************************************************************)
\* longest byte sequence crc16 is called with
MaxLen == 4

nonProbeVars == <<pc, req, op, args, id, calls, serial, writeQ, sinkMode, sent,
                  stream, pos, ending, closed, inbox, readQ, log, results>>

\* arguments at and beyond the edges of their ranges
UnitProbe  == {-1, 0, 1, 17, 247, 248, 255}
AddrProbe  == {-1, 0, 258, 65535, 65536}
ValueProbe == {-1, 0, 48879, 65280, 65535, 65536}

\* n values v
Fill(n, v) == [k \in 1..n |-> v]
\* n coil states, every third one on
Coils(n) == [k \in 1..n |-> k % 3 = 1]

\* the arguments each builder is called with
BuildArgs(o) ==
  CASE o \in {"readCoils", "readDiscreteInputs"} ->
         {Args(ad, q, 0, 0, <<>>) : ad \in AddrProbe, q \in {0, 1, 2000, 2001}}
    [] o \in {"readHoldingRegisters", "readInputRegisters"} ->
         {Args(ad, q, 0, 0, <<>>) : ad \in AddrProbe, q \in {0, 1, 125, 126}}
    [] o = "writeCoil" ->
         {Args(ad, 0, x, 0, <<>>) : ad \in AddrProbe, x \in {0, 1}}
    [] o = "writeCoils" ->
         {Args(ad, 0, 0, 0, Coils(n)) : ad \in AddrProbe, n \in {0, 1, 3, 1968, 1969}}
    [] o = "writeRegister" ->
         {Args(ad, 0, x, 0, <<>>) : ad \in AddrProbe, x \in ValueProbe}
    [] o = "writeRegisters" ->
         {Args(ad, 0, 0, 0, Fill(n, 43690)) : ad \in AddrProbe, n \in {0, 1, 123, 124}}
           \cup {Args(16, 0, 0, 0, <<x, 48059>>) : x \in ValueProbe}
    [] o = "maskWriteRegister" ->
         {Args(ad, 0, x, y, <<>>) : ad \in AddrProbe, x \in ValueProbe, y \in ValueProbe}
    [] o = "readWriteRegisters" ->
         {Args(ad, q, 16, 0, Fill(n, 7)) :
            ad \in AddrProbe, q \in {0, 1, 125, 126}, n \in {0, 1, 121, 122}}
           \cup {Args(0, 1, wa, 0, <<x>>) : wa \in AddrProbe, x \in ValueProbe}
    [] o = "readFileRecord" ->
         {Args(4, q, x, 0, <<>>) : q \in {0, 1, 120, 121}, x \in {0, 1, 9999}}
    [] o = "writeFileRecord" ->
         {Args(4, 0, 1, 0, Fill(n, 258)) : n \in {0, 1, 120, 121}}
    [] o = "readFifoQueue" ->
         {Args(ad, 0, 0, 0, <<>>) : ad \in AddrProbe}

\* a builder is called
BuildProbe(o, unit, a) ==
  /\ probe = NoProbe
  /\ probe' = [fn |-> "build", op |-> o, unit |-> unit, args |-> a,
               out |-> Request(o, unit, a)]
  /\ UNCHANGED nonProbeVars

\* the operations whose reply echoes the request, each with its parser
EchoOps == {"writeCoil", "writeRegister", "maskWriteRegister"}

\* a parser is called on the frame its builder returned
EchoProbe(o, unit, a) ==
  /\ probe = NoProbe
  /\ o \in EchoOps
  /\ \E b \in {Request(o, unit, a)} :
       /\ b.ok
       /\ probe' = [fn |-> "echo", op |-> o, unit |-> unit, args |-> a,
                    frame |-> b.frame, out |-> Shape(o, a, b.frame)]
  /\ UNCHANGED nonProbeVars

\* the coil sequences buildWriteMultipleCoils is called with
CoilSeqs ==
  UNION {[1..n -> BOOLEAN] : n \in 1..MaxQty} \cup {Coils(1961), Coils(1968)}

\* the read-coils reply that carries the data bytes of a write-multiple-coils
\* request: unit, FC 01, byte count, data, CRC
CoilReply(frame) ==
  buildResponse(<<At(frame, 0), FC_READ_COILS>> \o SubSeq(frame, 7, Len(frame) - 2))

\* buildWriteMultipleCoils is called, and parseReadCoils on its data bytes
PackProbe(unit, vals) ==
  /\ probe = NoProbe
  /\ \E b \in {buildWriteMultipleCoils(unit, 0, vals)} :
       /\ b.ok
       /\ probe' = [fn |-> "pack", unit |-> unit, vals |-> vals,
                    frame |-> b.frame,
                    out |-> parseReadCoils(CoilReply(b.frame))]
  /\ UNCHANGED nonProbeVars

\* the byte sequences crc16 is called with: all of up to MaxLen bytes over four
\* byte values, and the bodies of the crc16 tests
CrcBytes == {0, 1, 128, 255}
CrcInputs ==
  UNION {[1..n -> CrcBytes] : n \in 0..MaxLen}
    \cup {<<1, 3, 0, 0, 0, 10>>, <<17, 6, 0, 42, 0, 255>>}

\* crc16 is called on buf, and on buf followed by that CRC, low byte first
CrcProbe(buf) ==
  /\ probe = NoProbe
  /\ \E crc \in {crc16(buf)} :
       probe' = [fn |-> "crc16", buf |-> buf, out |-> crc,
                 whole |-> crc16(buf \o <<crc % 256, crc \div 256>>)]
  /\ UNCHANGED nonProbeVars

\* the operations that call a parser, one parser each
ParsingOps == Ops \ {"writeCoils", "writeRegisters", "writeFileRecord"}

\* the parser of operation o is called on the exception response with code c
ExceptionProbe(o, unit, c) ==
  /\ probe = NoProbe
  /\ o \in ParsingOps
  /\ \E frame \in {buildResponse(<<unit, OpFC(o) + 128, c>>)} :
       \E r \in {Shape(o, NoArgs, frame)} :
         probe' = [fn |-> "exception", op |-> o, unit |-> unit, code |-> c,
                   frame |-> frame, out |-> r,
                   msg |-> IF r.kind = "ExceptionError"
                           THEN ExceptionMessage(r.code) ELSE ""]
  /\ UNCHANGED nonProbeVars

\* the parser each operation calls on the frame transact returned
Parser(o, frame) ==
  CASE o = "readCoils"            -> parseReadCoils(frame)
    [] o = "readDiscreteInputs"   -> parseReadDiscreteInputs(frame)
    [] o = "readHoldingRegisters" -> parseReadHolding(frame)
    [] o = "readInputRegisters"   -> parseReadInputRegisters(frame)
    [] o = "writeCoil"            -> parseWriteSingleCoil(frame)
    [] o = "writeRegister"        -> parseWriteSingle(frame)
    [] o = "maskWriteRegister"    -> parseMaskWriteRegister(frame)
    [] o = "readWriteRegisters"   -> parseReadWriteMultiple(frame)
    [] o = "readFileRecord"       -> parseReadFileRecord(frame)
    [] o = "readFifoQueue"        -> parseReadFifoQueue(frame)

\* byte 1 of the frames the parsers are called on: the function code of every
\* operation and three codes no parser expects
ProbeFCs == {OpFC(o) : o \in Ops} \cup {0, 7, 127}

\* the value field of the echo frames the parsers are called on
EchoValues == {<<0, 0>>, <<255, 0>>, <<0, 1>>, <<0, 255>>, <<1, 0>>, <<255, 1>>,
               <<255, 255>>, <<18, 52>>}

\* frames without their trailer: no byte, a unit id, a unit id and a function
\* code, read replies of one register, echoes, exception responses
ParseBodies ==
  {<<>>, <<1>>}
    \cup {<<1, fc>> : fc \in ProbeFCs}
    \cup {<<1, fc, 2, 18, 52>> : fc \in ProbeFCs}
    \cup {<<1, fc, 0, 2>> \o v :
            fc \in {FC_WRITE_SINGLE_COIL, FC_WRITE_SINGLE_HOLDING_REGISTER},
            v \in EchoValues}
    \cup {<<1, fc + 128, 2>> : fc \in ProbeFCs}
    \cup {<<1, fc + 128, 2, 18, 52>> : fc \in ProbeFCs}

\* the frames the parsers are called on: each body with its CRC, each body with
\* a trailer of two zero bytes, and the frames of fewer than four bytes
ParseFrames ==
  {buildResponse(b) : b \in ParseBodies}
    \cup {b \o <<0, 0>> : b \in ParseBodies}
    \cup {<<>>, <<1>>, <<1, 3>>, <<255, 255>>, <<1, 3, 2>>, <<1, 131, 2>>}

\* the parser of operation o is called on frame
ParseProbe(o, frame) ==
  /\ probe = NoProbe
  /\ o \in ParsingOps
  /\ probe' = [fn |-> "parse", op |-> o, frame |-> frame, out |-> Parser(o, frame)]
  /\ UNCHANGED nonProbeVars

ProbeInit ==
  /\ pc = [c \in Callers |-> "idle"]
  /\ req = [c \in Callers |-> <<>>]
  /\ op = [c \in Callers |-> "none"]
  /\ args = [c \in Callers |-> NoArgs]
  /\ id = 1
  /\ calls = 0
  /\ serial = TRUE
  /\ writeQ = <<>>
  /\ sinkMode = "ok"
  /\ sent = <<>>
  /\ stream = <<>>
  /\ pos = 0
  /\ ending = "silent"
  /\ closed = FALSE
  /\ inbox = <<>>
  /\ readQ = <<>>
  /\ log = <<>>
  /\ results = <<>>
  /\ probe = NoProbe

ProbeNext ==
  \/ \E o \in Ops, unit \in UnitProbe : \E a \in BuildArgs(o) : BuildProbe(o, unit, a)
  \/ \E o \in EchoOps, unit \in UnitProbe : \E a \in BuildArgs(o) : EchoProbe(o, unit, a)
  \/ \E vals \in CoilSeqs : PackProbe(1, vals)
  \/ \E buf \in CrcInputs : CrcProbe(buf)
  \/ \E o \in ParsingOps, c \in 0..255 : ExceptionProbe(o, 1, c)
  \/ \E o \in ParsingOps, frame \in ParseFrames : ParseProbe(o, frame)

ProbeSpec == ProbeInit /\ [][ProbeNext]_vars


(***************************************************************************)
(* Scheduling: the event loop runs every timer that is due, and a writer   *)
(* whose sink accepts or rejects writes settles each write. The source is  *)
(* under no obligation to deliver or to end.                               *)
(***************************************************************************)
FairSpec ==
  /\ Init
  /\ [][Next]_vars
  /\ WF_vars(\E c \in Callers : TimerFires(c))
  /\ WF_vars(\E c \in Callers : WriteDone(c))
  /\ WF_vars(\E c \in Callers : WriteFail(c))

(***************************************************************************)
(* Properties.                                                             *)
(***************************************************************************)
\* byte 1 of a frame without the exception bit
MaskedFC(frame) == At(frame, 1) % 128

\* a frame that carries its own CRC
CrcValid(frame) == Len(frame) >= 4 /\ CrcMatches(frame)

\* all chunks of a sequence of chunks, joined
RECURSIVE Join(_)
Join(chunks) == IF chunks = <<>> THEN <<>> ELSE Head(chunks) \o Join(Tail(chunks))

\* C1: every frame transact returns is CRC-valid and has the function code of
\* its request; a CRC-valid frame of another function code ahead of it in the
\* chunk (the FC 03 reply before the FC 06 echo) is consumed, not returned.
C1_ReturnsMatchingFrame ==
  serial =>
    \A i \in 1..Len(log) :
      (log[i].kind = "frame" /\ log[i].got # <<>>) =>
        /\ CrcValid(log[i].val)
        /\ MaskedFC(log[i].val) = At(log[i].req, 1)
        /\ (i = 1 /\ stream = <<okFrame \o f1>>
              /\ At(log[i].req, 1) = FC_WRITE_SINGLE_HOLDING_REGISTER)
             => log[i].val = f1

\* C2: a well-formed frame of the request's function code that arrives split
\* into two chunks is returned whole by the one call, not its first chunk.
C2_SplitFrameReturnedWhole ==
  (/\ serial
   /\ Len(stream) = 2 /\ stream[1] # <<>> /\ stream[2] # <<>>
   /\ stream[1] \o stream[2] \in WireFrames
   /\ CrcValid(stream[1] \o stream[2])
   /\ Len(log) >= 1
   /\ log[1].kind = "frame"
   /\ At(log[1].req, 1) = MaskedFC(stream[1] \o stream[2]))
    => log[1].val = stream[1] \o stream[2]

\* C3: two valid frames of the request's function code that arrive in one
\* chunk are returned by two successive calls, the first frame by the first
\* call and the second by the second.
C3_BackToBackInOrder ==
  \A F, G \in WireFrames :
    (/\ serial
     /\ stream = <<F \o G>>
     /\ CrcValid(F) /\ CrcValid(G) /\ MaskedFC(F) = MaskedFC(G) /\ At(F, 1) < 128
     /\ Len(log) >= 1
     /\ At(log[1].req, 1) = MaskedFC(F)
     /\ log[1].kind = "frame")
      => /\ log[1].val = F
         /\ (Len(log) = 2 /\ At(log[2].req, 1) = MaskedFC(F)
               /\ log[2].kind = "frame") => log[2].val = G

\* C4: with a CRC-corrupt frame of the expected function code ahead of a
\* well-formed one, the first call fails with a CRC error and the next call
\* returns the well-formed frame.
C4_CrcErrorThenResync ==
  (/\ serial
   /\ Len(stream) = 2
   /\ Len(stream[1]) >= 4 /\ ~CrcMatches(stream[1])
   /\ CrcValid(stream[2]) /\ At(stream[2], 1) < 128
   /\ MaskedFC(stream[1]) = MaskedFC(stream[2])
   /\ Len(log) >= 1
   /\ At(log[1].req, 1) = MaskedFC(stream[2])
   /\ log[1].rd = "chunk")
    => /\ log[1].kind = "CrcError"
       /\ (Len(log) = 2 /\ At(log[2].req, 1) = MaskedFC(stream[2])
             /\ log[2].rd = "chunk") => (log[2].kind = "frame" /\ log[2].val = stream[2])

\* C5: a call whose read gives no data, the end of the stream or a chunk of no
\* bytes, fails with Timeout and returns no frame.
C5_NoDataIsTimeout ==
  \A i \in 1..Len(log) :
    (log[i].rd = "done" \/ (log[i].rd = "chunk" /\ log[i].got = <<>>))
      => log[i].kind = "Timeout"

\* C6: every transact call completes, whatever the sink and the source do.
C6_EveryCallCompletes ==
  \A c \in Callers : (pc[c] # "idle") ~> (pc[c] = "idle")

\* C7: at most one call is in flight on the transport: no request is handed
\* to the writer and no read is issued while an earlier call has not completed.
C7_OneInFlight ==
  Cardinality({c \in Callers : pc[c] # "idle"}) <= 1

\* C8: after a call has timed out, the bytes that arrive afterwards are kept
\* for the next call, which returns the late frame when it asks for the same
\* function code.
C8_LateBytesKept ==
  (/\ serial
   /\ Len(log) >= 1
   /\ log[1].kind = "Timeout" /\ log[1].rd = "timer")
    => /\ (calls = 1 => Join(inbox) = Join(SubSeq(stream, 1, pos)))
       /\ (Len(log) = 2 /\ log[2].kind = "frame" /\ CrcValid(stream[1])
             /\ At(log[2].req, 1) = At(stream[1], 1))
            => log[2].val = stream[1]

\* C9: every client operation parses the reply before it reports success: on
\* an exception response, a frame with a bad CRC or a frame of another
\* function code it fails with the error basicChecks gives for that frame.
C9_ReplyParsedBeforeSuccess ==
  \A i \in 1..Len(results) :
    (results[i].tkind = "frame"
       /\ basicChecks(results[i].raw, OpFC(results[i].op)).kind # "ok")
      => results[i].kind = basicChecks(results[i].raw, OpFC(results[i].op)).kind

\* the reply a device gives to a bit read of qty: ceil(qty / 8) data bytes
WellFormedBits(raw, fc, qty) ==
  /\ CrcValid(raw)
  /\ At(raw, 1) = fc
  /\ At(raw, 2) = CeilDiv8(qty)
  /\ Len(raw) = 3 + At(raw, 2) + 2

\* C10: readCoils and readDiscreteInputs return exactly qty booleans for a
\* well-formed reply, also when qty is not a multiple of 8.
C10_BitsTruncatedToQty ==
  \A i \in 1..Len(results) :
    (/\ results[i].op \in {"readCoils", "readDiscreteInputs"}
     /\ results[i].args.qty \in 1..2000
     /\ results[i].kind = "ok"
     /\ WellFormedBits(results[i].raw, OpFC(results[i].op), results[i].args.qty))
      => Len(results[i].data) = results[i].args.qty

\* the quantities of a builder call, each with the largest value the builder
\* is to accept
Quantities(o, a) ==
  CASE o \in {"readCoils", "readDiscreteInputs"} -> {<<a.qty, 2000>>}
    [] o \in {"readHoldingRegisters", "readInputRegisters"} -> {<<a.qty, 125>>}
    [] o = "writeCoils" -> {<<Len(a.vals), 1968>>}
    [] o = "writeRegisters" -> {<<Len(a.vals), 123>>}
    [] o = "readWriteRegisters" -> {<<a.qty, 125>>, <<Len(a.vals), 121>>}
    [] o \in {"readFileRecord"} -> {<<a.qty, 120>>}
    [] o \in {"writeFileRecord"} -> {<<Len(a.vals), 120>>}
    [] OTHER -> {}

\* the addresses, register values and masks of a builder call
Words16(o, a) ==
  (IF o \in {"readFileRecord", "writeFileRecord"} THEN {} ELSE {a.addr})
    \cup (IF o = "readWriteRegisters" THEN {a.x} ELSE {})
    \cup (IF o = "writeRegister" THEN {a.x} ELSE {})
    \cup (IF o = "maskWriteRegister" THEN {a.x, a.y} ELSE {})
    \cup (IF o \in {"writeRegisters", "readWriteRegisters"}
          THEN {a.vals[k] : k \in 1..Len(a.vals)} ELSE {})

\* C13: every builder rejects a unit id outside 1..247 and returns no frame.
C13_UnitIdRejected ==
  (probe.fn = "build" /\ probe.unit \notin 1..247) => ~probe.out.ok

\* C14: every builder that takes a quantity rejects 0 and max + 1 and accepts
\* 1 and max.
C14_QuantityBoundaries ==
  probe.fn = "build" =>
    /\ (\E q \in Quantities(probe.op, probe.args) : q[1] \in {0, q[2] + 1})
         => ~probe.out.ok
    /\ (/\ Quantities(probe.op, probe.args) # {}
        /\ \A q \in Quantities(probe.op, probe.args) : q[1] \in {1, q[2]})
         => probe.out.ok

\* C15: every builder rejects an address, a register value or a mask outside
\* 0..0xFFFF; it emits no frame for such an argument.
C15_Range16Rejected ==
  (probe.fn = "build"
     /\ \E w \in Words16(probe.op, probe.args) : w < 0 \/ w > 65535)
    => ~probe.out.ok

\* C16: the last two bytes of every frame a builder returns are the CRC-16 of
\* the bytes before them, low byte then high byte, and the frame passes the
\* CRC check of the parsers.
C16_BuilderCrcConsistent ==
  (probe.fn = "build" /\ probe.out.ok) =>
    LET f == probe.out.frame
        c == crc16(SubSeq(f, 1, Len(f) - 2))
    IN  /\ Len(f) >= 3
        /\ f[Len(f) - 1] = c % 256
        /\ f[Len(f)] = c \div 256
        /\ CrcMatches(f)

\* C16 witness: the longest write-multiple-registers request has been built.
C16_Witness ==
  /\ probe.fn = "build" /\ probe.out.ok
  /\ probe.op = "writeRegisters" /\ Len(probe.args.vals) = 123
  /\ Len(probe.out.frame) = 255

\* C17: crc16 of a byte sequence followed by its own crc16, low byte then high
\* byte, is 0; crc16 is the CRC-16 of Modbus (01 03 00 00 00 0A gives 0xCDC5).
C17_CrcOfFrameIsZero ==
  probe.fn = "crc16" =>
    /\ probe.whole = 0
    /\ probe.buf = <<1, 3, 0, 0, 0, 10>> => probe.out = 52677

\* C17 witness: crc16 has been called on a sequence of MaxLen bytes whose CRC
\* has two different non-zero bytes.
C17_Witness ==
  /\ probe.fn = "crc16"
  /\ Len(probe.buf) >= 4
  /\ probe.out % 256 # 0 /\ probe.out \div 256 # 0
  /\ probe.out % 256 # probe.out \div 256
  /\ probe.whole = 0

\* unit id, address and values of an echo call are all in range
ValidEcho(p) ==
  /\ p.unit \in 1..247
  /\ p.args.addr \in 0..65535
  /\ p.args.x \in 0..65535
  /\ p.args.y \in 0..65535

\* C18: for valid arguments the echo parsers return what the frame was built
\* from: {address, state}, {address, value}, {address, andMask, orMask}.
C18_EchoRoundTrip ==
  (probe.fn = "echo" /\ ValidEcho(probe)) =>
    /\ probe.out.kind = "ok"
    /\ probe.op = "writeCoil" =>
         probe.out.data = [address |-> probe.args.addr, state |-> probe.args.x = 1]
    /\ probe.op = "writeRegister" =>
         probe.out.data = [address |-> probe.args.addr, value |-> probe.args.x]
    /\ probe.op = "maskWriteRegister" =>
         probe.out.data = [address |-> probe.args.addr, andMask |-> probe.args.x,
                           orMask |-> probe.args.y]

\* C18 witness: parseWriteSingleCoil has returned state true for the frame
\* built with state true at a two-byte address.
C18_Witness ==
  /\ probe.fn = "echo" /\ ValidEcho(probe)
  /\ probe.op = "writeCoil" /\ probe.args.x = 1 /\ probe.args.addr = 258
  /\ probe.out.kind = "ok" /\ probe.out.data.state

\* bit j of byte b
BitOf(b, j) == (b \div (2 ^ j)) % 2 = 1

\* C19: buildWriteMultipleCoils writes ceil(qty / 8) data bytes, bit i mod 8 of
\* data byte i div 8 being set exactly when element i is true and every bit
\* from qty on being 0; parseReadCoils on those bytes, truncated to qty, gives
\* the sequence back.
C19_CoilPackSymmetry ==
  probe.fn = "pack" =>
    LET v  == probe.vals
        f  == probe.frame
        bc == (Len(v) + 7) \div 8
    IN  /\ Len(f) = 7 + bc + 2
        /\ f[7] = bc
        /\ \A i \in 0..(8 * bc - 1) :
             BitOf(f[8 + (i \div 8)], i % 8) = (i < Len(v) /\ v[i + 1])
        /\ probe.out.kind = "ok"
        /\ Len(probe.out.data) = 8 * bc
        /\ SubSeq(probe.out.data, 1, Len(v)) = v

\* C19 witness: a sequence whose length is not a multiple of 8, with coils on
\* and off, has been packed and unpacked.
C19_Witness ==
  /\ probe.fn = "pack"
  /\ Len(probe.vals) = 1961
  /\ probe.vals[1] /\ ~probe.vals[2]
  /\ probe.out.kind = "ok"
  /\ Len(probe.frame) = 7 + 246 + 2

\* the message the exception-code table of the specification gives for code c
TableMessage(c) ==
  CASE c = 1  -> "Illegal Function"
    [] c = 2  -> "Illegal Data Address"
    [] c = 3  -> "Illegal Data Value"
    [] c = 4  -> "Slave Device Failure"
    [] c = 5  -> "Acknowledge"
    [] c = 6  -> "Slave Device Busy"
    [] c = 8  -> "Memory Parity Error"
    [] c = 10 -> "Gateway Path Unavailable"
    [] c = 11 -> "Gateway Target Device Failed to Respond"
    [] OTHER  -> "Modbus exception 0x" \o ToString16(c)

\* C20: every parser raises, for the CRC-valid frame [unit, fc | 0x80, c, crc],
\* an exception error with code c whose message is the table entry of c, or
\* the generic text for a code the table does not list.
C20_ExceptionCodeAndMessage ==
  probe.fn = "exception" =>
    /\ probe.out.kind = "ExceptionError"
    /\ probe.out.code = probe.code
    /\ probe.msg = TableMessage(probe.code)

\* the operations invoked so far whose builder returned a frame
Transacting ==
  calls - Cardinality({i \in 1..Len(results) : results[i].tkind = "none"})

\* C11: each client operation calls transact at most once and its request is
\* written to the sink at most once, also after a failure of any kind: the
\* calls of transact made and the frames written never outnumber the
\* operations invoked.
C11_OneTransactionPerOperation ==
  /\ Len(log) + Cardinality({c \in Callers : pc[c] # "idle"}) = Transacting
  /\ Len(sent) + Len(writeQ) <= Transacting
  /\ Len(results) + Cardinality({c \in Callers : pc[c] # "idle"}) = calls
  /\ \A i \in 1..Len(sent) :
       Cardinality({j \in 1..Len(log) : log[j].req = sent[i]})
         + Cardinality({c \in Callers : pc[c] # "idle" /\ req[c] = sent[i]})
         >= Cardinality({j \in 1..Len(sent) : sent[j] = sent[i]})

\* C11 witness: a first operation has failed on a reply with a bad CRC, a second
\* one has failed on a timeout, and two frames have been written in all.
C11_Witness ==
  /\ Len(results) = 2
  /\ results[1].kind = "CrcError"
  /\ results[2].kind = "Timeout"
  /\ Len(sent) = 2
  /\ \A c \in Callers : pc[c] = "idle"

\* C12: getID is 1 on a new client and the value of the last setID afterwards;
\* byte 0 of the request of an operation is the unit id current when it is
\* invoked, and setID leaves the request of an earlier operation as it is.
C12_UnitIdBinding ==
  /\ getID = 1
  /\ [][/\ \A u \in SessionIds :
             SetID(u) => (getID' = u /\ req' = req /\ writeQ' = writeQ /\ sent' = sent)
        /\ (\A u \in SessionIds : ~SetID(u)) => getID' = getID
        /\ \A c \in Callers :
             (pc[c] = "idle" /\ pc'[c] = "writing") => At(req'[c], 0) = getID
        /\ \A i \in 1..Len(sent) : sent'[i] = sent[i]]_vars

\* C12 witness: two operations have been written, the first for unit 1 and,
\* after a setID, the second for unit 255.
C12_Witness ==
  /\ Len(sent) = 2
  /\ At(sent[1], 0) = 1
  /\ At(sent[2], 0) = 255
  /\ getID = 255

\* C21: a parser called on a CRC-valid frame without the exception bit whose
\* function code is not the one it expects raises the UnexpectedFunctionCode
\* kind: not Malformed, not an untyped error, and no payload.
C21_UnexpectedFunctionCode ==
  (/\ probe.fn = "parse"
   /\ CrcValid(probe.frame)
   /\ At(probe.frame, 1) < 128
   /\ At(probe.frame, 1) # OpFC(probe.op))
    => probe.out.kind = "UnexpectedFunctionCode"

\* C22: a parser called on a frame of fewer than four bytes raises Malformed:
\* it gives no CrcError, no other error and no payload.
C22_ShortFrameMalformed ==
  (probe.fn = "parse" /\ Len(probe.frame) < 4) => probe.out.kind = "Malformed"

\* C23: the parsers check the CRC, then the exception bit, then the function
\* code: a frame no shorter than an exception response with a wrong trailer
\* raises CrcError whatever byte 1 holds, and
\* a CRC-valid frame with the exception bit raises ExceptionError with the code
\* of byte 2 also when its masked function code is not the expected one.
C23_CheckOrder ==
  (probe.fn = "parse" /\ Len(probe.frame) >= Len(excFrame)) =>
    /\ ~CrcMatches(probe.frame) => probe.out.kind = "CrcError"
    /\ (CrcMatches(probe.frame) /\ At(probe.frame, 1) >= 128)
         => /\ probe.out.kind = "ExceptionError"
            /\ probe.out.code = At(probe.frame, 2)

\* C23 witness: parseReadCoils has raised ExceptionError 2 for the CRC-valid
\* exception response to FC 03.
C23_Witness ==
  /\ probe.fn = "parse" /\ probe.op = "readCoils"
  /\ probe.frame = excFrame
  /\ MaskedFC(probe.frame) # OpFC(probe.op)
  /\ probe.out.kind = "ExceptionError" /\ probe.out.code = 2

\* C24: parseWriteSingleCoil reports state true for the value 0xFF00 and false
\* for 0x0000 of a CRC-valid FC 05 echo, and raises Malformed for every other
\* value.
C24_CoilValueChecked ==
  (/\ probe.fn = "parse" /\ probe.op = "writeCoil"
   /\ Len(probe.frame) = 8 /\ CrcValid(probe.frame)
   /\ At(probe.frame, 1) = FC_WRITE_SINGLE_COIL)
    => LET val == 256 * At(probe.frame, 4) + At(probe.frame, 5)
       IN  /\ val = 65280 => (probe.out.kind = "ok" /\ probe.out.data.state)
           /\ val = 0 => (probe.out.kind = "ok" /\ ~probe.out.data.state)
           /\ val \notin {0, 65280} => probe.out.kind = "Malformed"

\* the operations whose request is the fixed 8-byte frame, and the 16-bit
\* field x that follows the address in it
FixedOps == {"readCoils", "readDiscreteInputs", "readHoldingRegisters",
             "readInputRegisters", "writeRegister", "writeCoil"}
FixedX(o, a) ==
  CASE o = "writeCoil"     -> IF a.x = 1 THEN 65280 ELSE 0
    [] o = "writeRegister" -> a.x
    [] OTHER               -> a.qty

\* C25: for a unit id in 1..247 and an address and x in 0..0xFFFF that the
\* builder accepts, each fixed-size request builder returns the 8 bytes
\* id, fc, addr div 256, addr mod 256, x div 256, x mod 256, crc_lo, crc_hi.
C25_FixedFrameLayout ==
  (/\ probe.fn = "build" /\ probe.op \in FixedOps /\ probe.out.ok
   /\ probe.unit \in 1..247
   /\ probe.args.addr \in 0..65535
   /\ FixedX(probe.op, probe.args) \in 0..65535)
    => LET x    == FixedX(probe.op, probe.args)
           body == <<probe.unit, OpFC(probe.op),
                     probe.args.addr \div 256, probe.args.addr % 256,
                     x \div 256, x % 256>>
       IN  probe.out.frame = body \o <<crc16(body) % 256, crc16(body) \div 256>>

\* C25 witness: buildReadDiscreteInputs(247, 258, 2000) has returned its
\* frame, with two different bytes in the address and in the quantity.
C25_Witness ==
  /\ probe.fn = "build" /\ probe.op = "readDiscreteInputs" /\ probe.out.ok
  /\ probe.unit = 247 /\ probe.args.addr = 258 /\ probe.args.qty = 2000
  /\ SubSeq(probe.out.frame, 1, 6) = <<247, 2, 1, 2, 7, 208>>
  /\ Len(probe.out.frame) = 8

\* the length the header bytes of a frame give it: 5 for an exception
\* response, 3 + resp[2] + 2 for the replies that carry a byte count, 8 for the
\* echoes, 10 for the mask-write echo, 4 + the two-byte count + 2 for the FIFO
\* reply
FrameLength(resp) ==
  IF At(resp, 1) >= 128 THEN Len(excFrame)
  ELSE CASE At(resp, 1) \in {FC_READ_COILS, FC_READ_DISCRETE_INPUTS,
                             FC_READ_HOLDING_REGISTERS, FC_READ_INPUT_REGISTERS,
                             FC_READ_WRITE_MULTIPLE_REGISTERS}
              -> 3 + At(resp, 2) + 2
         [] At(resp, 1) \in {FC_WRITE_SINGLE_COIL, FC_WRITE_SINGLE_HOLDING_REGISTER,
                             FC_WRITE_MULTIPLE_COILS,
                             FC_WRITE_MULTIPLE_HOLDING_REGISTERS}
              -> Len(f1)
         [] At(resp, 1) = FC_MASK_WRITE_REGISTER -> Len(f1) + 2
         [] At(resp, 1) = FC_READ_FIFO_QUEUE
              -> 4 + (256 * At(resp, 2) + At(resp, 3)) + 2
         [] OTHER -> Len(resp)

\* C26: every frame transact returns has the length its function code and
\* header bytes give it: not fewer bytes, and no byte of a following frame.
C26_ReturnedFrameLength ==
  \A i \in 1..Len(log) :
    (log[i].kind = "frame" /\ Len(log[i].val) >= 3)
      => Len(log[i].val) = FrameLength(log[i].val)

\* C27: transact returns no CRC-valid frame whose unit id, byte 0, differs
\* from byte 0 of the request.
C27_UnitIdMatches ==
  \A i \in 1..Len(log) :
    (log[i].kind = "frame" /\ CrcValid(log[i].val))
      => At(log[i].val, 0) = At(log[i].req, 0)

\* C28: with stray bytes that fail the CRC ahead of a well-formed response to
\* the request in the same chunk, the call that reads the chunk returns the
\* well-formed response, whole and alone. The response is an FC 06 echo, whose
\* length does not depend on the bytes at the head.
C28_StrayBytesSkipped ==
  \A S, G \in WireFrames :
    (/\ serial
     /\ stream = <<S \o G>>
     /\ ~CrcMatches(S)
     /\ CrcValid(G) /\ At(G, 1) = FC_WRITE_SINGLE_HOLDING_REGISTER
     /\ Len(log) >= 1
     /\ log[1].rd = "chunk"
     /\ At(log[1].req, 0) = At(G, 0) /\ At(log[1].req, 1) = At(G, 1))
      => (log[1].kind = "frame" /\ log[1].val = G)

\* an operation has just ended because its builder threw
BuilderRejected ==
  /\ Len(results') = Len(results) + 1
  /\ results'[Len(results')].tkind = "none"

\* C29: an operation whose builder rejects the arguments ends without a call
\* of transact: nothing is handed to the writer, no read is issued, and the
\* unit id and the state of the transport stay as they were.
C29_RejectedBeforeTransact ==
  [][BuilderRejected =>
       /\ results'[Len(results')].kind = "Error"
       /\ UNCHANGED <<sent, writeQ, readQ, inbox, pos, closed, pc, req, log, id>>]_vars

\* C29 witness: writeRegisters with 124 values has failed, nothing was sent
\* and no call of transact was made.
C29_Witness ==
  /\ Len(results) = 1
  /\ results[1].op = "writeRegisters" /\ Len(results[1].args.vals) = 124
  /\ results[1].tkind = "none" /\ results[1].kind = "Error"
  /\ sent = <<>> /\ log = <<>> /\ readQ = <<>> /\ writeQ = <<>>

\* C30: over calls made one after the other at most one read is pending on
\* the reader, and every pending read belongs to a call that still awaits it:
\* no call that has completed, by timeout or otherwise, leaves a read behind.
C30_NoAbandonedRead ==
  serial =>
    /\ Len(readQ) <= 1
    /\ \A i \in 1..Len(readQ) :
         readQ[i].live /\ pc[readQ[i].caller] = "reading"

====
